---- MODULE Spec2Model ----
(***************************************************************************)
(* Model of src/shaders.rs: the vertex transform stage and the fragment    *)
(* shading dispatcher with its material shaders.                           *)
(*                                                                         *)
(* f32 values are fixed-point integers counting thousandths (1.0 is 1000), *)
(* so that the thresholds 0.5 and 0.001 of the cloud shader and the radius *)
(* 0.1 of the circles are exact.  Whole-number literals of the source      *)
(* (255.0, 5.0, 1000.0 ...) are kept as plain integers and multiply with   *)
(* `*`; fractional literals are thousandths and multiply with FMul.        *)
(***************************************************************************)
EXTENDS Integers, Sequences, FiniteSets, TLC

VARIABLES uniforms, last, ref

vars == <<uniforms, last, ref>>

\* One unit of the real line in thousandths.
Scale == 10 * 100

----------------------------------------------------------------------------
(* f32 arithmetic *)

Abs(a) == IF a < 0 THEN -a ELSE a

Sign(a) == IF a < 0 THEN -1 ELSE 1

\* Quotient rounded toward zero (sign-symmetric, as f32 arithmetic is).
Quot(a, b) == Sign(a) * Sign(b) * (Abs(a) \div Abs(b))

\* a * b of two thousandths.
FMul(a, b) == Quot(a * b, Scale)

\* a / b of two thousandths, b # 0.
FDiv(a, b) == Quot(a * Scale, b)

\* f32 % f32: the remainder has the sign of the dividend.
FRem(a, m) == Sign(a) * (Abs(a) % Abs(m))

\* pi/2, pi, 2*pi in thousandths.
HalfPi == 1571
Pi == 3142
TwoPi == 6283

\* Taylor kernels on [0, pi/4].
SinKernel(r) ==
    LET r2 == FMul(r, r)
        r3 == FMul(r2, r)
        r5 == FMul(r3, r2)
        r7 == FMul(r5, r2)
    IN  r - Quot(r3, 6) + Quot(r5, 120) - Quot(r7, 5040)

CosKernel(r) ==
    LET r2 == FMul(r, r)
        r4 == FMul(r2, r2)
        r6 == FMul(r4, r2)
    IN  Scale - Quot(r2, 2) + Quot(r4, 24) - Quot(r6, 720)

\* sin on the first quadrant [0, pi/2].
SinQuadrant(r) == IF 2 * r <= HalfPi THEN SinKernel(r) ELSE CosKernel(HalfPi - r)

\* f32::sin: argument reduction to one period, then to the first quadrant.
Sin(a) ==
    LET r == a % TwoPi
    IN  IF r <= HalfPi THEN SinQuadrant(r)
        ELSE IF r <= Pi THEN SinQuadrant(Pi - r)
        ELSE IF r <= Pi + HalfPi THEN -SinQuadrant(r - Pi)
        ELSE -SinQuadrant(TwoPi - r)

\* f32::cos: even, and cos(r) = sin(pi/2 - r) on the first quadrant.
Cos(a) ==
    LET r == Abs(a) % TwoPi
    IN  IF r <= HalfPi THEN SinQuadrant(HalfPi - r)
        ELSE IF r <= Pi THEN -SinQuadrant(r - HalfPi)
        ELSE IF r <= Pi + HalfPi THEN -SinQuadrant(Pi + HalfPi - r)
        ELSE SinQuadrant(r - (Pi + HalfPi))

RECURSIVE SqrtSearch(_, _, _)
SqrtSearch(n, lo, hi) ==
    IF lo >= hi THEN lo
    ELSE LET mid == (lo + hi + 1) \div 2
         IN  IF mid * mid <= n THEN SqrtSearch(n, mid, hi)
             ELSE SqrtSearch(n, lo, mid - 1)

\* f32::sqrt of a non-negative value (both in thousandths).
Sqrt(a) == SqrtSearch(a * Scale, 0, 40000)

\* Variant: a narrowing that keeps the low eight bits.
ToU8Wrapping(v) == Quot(v, Scale) % 256

\* `as u8` on an f32: truncates toward zero and saturates at 0 and 255.
ToU8(v) == IF v <= 0 THEN 0 ELSE IF v >= 255 * Scale THEN 255 ELSE v \div Scale

Min(a, b) == IF a < b THEN a ELSE b

----------------------------------------------------------------------------
(* crate::color::Color *)

Color(r, g, b) == [r |-> r, g |-> g, b |-> b]

is_black(c) == c.r = 0 /\ c.g = 0 /\ c.b = 0

\* Color * f32: channel-wise, clamped to a byte.
ColorMul(c, f) == Color(ToU8(c.r * f), ToU8(c.g * f), ToU8(c.b * f))

\* self.lerp(other, t): channel-wise self + (other - self) * t, clamped.
lerp(c, other, t) ==
    Color(ToU8(c.r * Scale + (other.r - c.r) * t),
          ToU8(c.g * Scale + (other.g - c.g) * t),
          ToU8(c.b * Scale + (other.b - c.b) * t))

----------------------------------------------------------------------------
(* nalgebra_glm vectors and matrices: tuples of thousandths, matrices by rows *)

Identity3 == <<<<Scale, 0, 0>>, <<0, Scale, 0>>, <<0, 0, Scale>>>>

Zero3 == <<<<0, 0, 0>>, <<0, 0, 0>>, <<0, 0, 0>>>>

Identity4 ==
    <<<<Scale, 0, 0, 0>>, <<0, Scale, 0, 0>>, <<0, 0, Scale, 0>>, <<0, 0, 0, Scale>>>>

\* Mat4 * Vec4
Mat4MulVec(m, v) ==
    [i \in 1..4 |-> FMul(m[i][1], v[1]) + FMul(m[i][2], v[2])
                    + FMul(m[i][3], v[3]) + FMul(m[i][4], v[4])]

\* Mat4 * Mat4
Mat4Mul(a, b) ==
    [i \in 1..4 |-> [j \in 1..4 |->
        FMul(a[i][1], b[1][j]) + FMul(a[i][2], b[2][j])
        + FMul(a[i][3], b[3][j]) + FMul(a[i][4], b[4][j])]]

\* Mat3 * Vec3
Mat3MulVec(m, v) ==
    [i \in 1..3 |-> FMul(m[i][1], v[1]) + FMul(m[i][2], v[2]) + FMul(m[i][3], v[3])]

\* mat4_to_mat3: the upper-left 3x3 block.
mat4_to_mat3(m) == [i \in 1..3 |-> [j \in 1..3 |-> m[i][j]]]

transpose(m) == [i \in 1..3 |-> [j \in 1..3 |-> m[j][i]]]

determinant(m) ==
    FMul(m[1][1], FMul(m[2][2], m[3][3]) - FMul(m[3][2], m[2][3]))
    - FMul(m[1][2], FMul(m[2][1], m[3][3]) - FMul(m[3][1], m[2][3]))
    + FMul(m[1][3], FMul(m[2][1], m[3][2]) - FMul(m[3][1], m[2][2]))

\* Option<Mat3>
None == [some |-> FALSE]

Some(m) == [some |-> TRUE, value |-> m]

\* Matrix::try_inverse for a 3x3 matrix: None when the determinant is zero,
\* otherwise the adjugate divided by the determinant.
try_inverse(m) ==
    LET det == determinant(m)
        cof(a, b, c, d) == FMul(m[a[1]][a[2]], m[b[1]][b[2]]) - FMul(m[c[1]][c[2]], m[d[1]][d[2]])
    IN  IF det = 0 THEN None
        ELSE Some(<<
            <<FDiv(cof(<<2,2>>, <<3,3>>, <<3,2>>, <<2,3>>), det),
              FDiv(cof(<<1,3>>, <<3,2>>, <<3,3>>, <<1,2>>), det),
              FDiv(cof(<<1,2>>, <<2,3>>, <<2,2>>, <<1,3>>), det)>>,
            <<FDiv(cof(<<2,3>>, <<3,1>>, <<3,3>>, <<2,1>>), det),
              FDiv(cof(<<1,1>>, <<3,3>>, <<3,1>>, <<1,3>>), det),
              FDiv(cof(<<1,3>>, <<2,1>>, <<2,3>>, <<1,1>>), det)>>,
            <<FDiv(cof(<<2,1>>, <<3,2>>, <<3,1>>, <<2,2>>), det),
              FDiv(cof(<<1,2>>, <<3,1>>, <<3,2>>, <<1,1>>), det),
              FDiv(cof(<<1,1>>, <<2,2>>, <<2,1>>, <<1,2>>), det)>> >>)

unwrap_or(opt, default) == IF opt.some THEN opt.value ELSE default

----------------------------------------------------------------------------
(* vertex_shader *)

\* An f32 that is infinite or NaN (the outcome of a division by a zero w).
NonFinite == "non-finite"

\* transformed.x / w, transformed.y / w, transformed.z / w, 1.0
perspective_divide(transformed) ==
    LET w == transformed[4]
    IN  IF w = 0 THEN [finite |-> FALSE]
        ELSE [finite |-> TRUE,
              v |-> <<FDiv(transformed[1], w), FDiv(transformed[2], w),
                      FDiv(transformed[3], w), Scale>>]

\* uniforms.viewport_matrix * transformed_position, keeping x, y, z.  The three
\* quotients by a zero w are all non-finite, and so is every row they enter.
screen_position(viewport_matrix, p) ==
    IF ~p.finite THEN <<NonFinite, NonFinite, NonFinite>>
    ELSE LET s == Mat4MulVec(viewport_matrix, p.v) IN <<s[1], s[2], s[3]>>

\* Variant: the zero matrix as the fallback.
normal_matrix_fallback_zero(model_matrix) ==
    unwrap_or(try_inverse(transpose(mat4_to_mat3(model_matrix))), Zero3)

\* model_mat3.transpose().try_inverse().unwrap_or(Mat3::identity())
normal_matrix(model_matrix) ==
    unwrap_or(try_inverse(transpose(mat4_to_mat3(model_matrix))), Identity3)

\* Variant: the derived values written over position and normal.
vertex_shader_in_place(vertex, u) ==
    LET position == <<vertex.position[1], vertex.position[2], vertex.position[3], Scale>>
        transformed ==
            Mat4MulVec(Mat4Mul(Mat4Mul(u.projection_matrix, u.view_matrix), u.model_matrix),
                       position)
        sp == screen_position(u.viewport_matrix, perspective_divide(transformed))
        transformed_normal == Mat3MulVec(normal_matrix(u.model_matrix), vertex.normal)
    IN  [position |-> sp,
         normal |-> transformed_normal,
         tex_coords |-> vertex.tex_coords,
         color |-> vertex.color,
         transformed_position |-> sp,
         transformed_normal |-> transformed_normal]

vertex_shader(vertex, u) ==
    LET position == <<vertex.position[1], vertex.position[2], vertex.position[3], Scale>>
        transformed ==
            Mat4MulVec(Mat4Mul(Mat4Mul(u.projection_matrix, u.view_matrix), u.model_matrix),
                       position)
        transformed_position == perspective_divide(transformed)
        sp == screen_position(u.viewport_matrix, transformed_position)
        transformed_normal == Mat3MulVec(normal_matrix(u.model_matrix), vertex.normal)
    IN  [position |-> vertex.position,
         normal |-> vertex.normal,
         tex_coords |-> vertex.tex_coords,
         color |-> vertex.color,
         transformed_position |-> sp,
         transformed_normal |-> transformed_normal]

----------------------------------------------------------------------------
(* The noise provider behind uniforms.noise.  It is an external coherent-noise
   library: a deterministic function of the handle and the coordinates with
   values in [-1, 1].  The handle is a seed; the samples cover both cloud
   thresholds, their neighbours and the ends of the range. *)

NoiseSamples == <<-1000, -1, 0, 1, 2, 499, 500, 501, 1000>>

get_noise_2d(noise, x, y) ==
    NoiseSamples[(((x % 9) + 2 * (y % 9) + noise) % 9) + 1]

get_noise_3d(noise, x, y, z) ==
    NoiseSamples[(((x % 9) + 2 * (y % 9) + 4 * (z % 9) + noise) % 9) + 1]

----------------------------------------------------------------------------
(* Material shaders *)

static_pattern_shader(fragment) ==
    LET x == fragment.vertex_position[1]
        y == fragment.vertex_position[2]
        pattern == Abs(FMul(Sin(x * 10), Sin(y * 10)))
        r == ToU8(pattern * 255)
        g == ToU8((Scale - pattern) * 255)
        b == 128
    IN  Color(r, g, b)

lava_shader(fragment, u) ==
    LET bright_color == Color(255, 240, 0)
        dark_color == Color(130, 20, 0)
        position == <<fragment.vertex_position[1], fragment.vertex_position[2],
                      fragment.depth>>
        base_frequency == 200
        pulsate_amplitude == 500
        t == FMul(u.time * Scale, 10)
        pulsate == FMul(Sin(FMul(t, base_frequency)), pulsate_amplitude)
        zoom == 1000
        noise_value1 ==
            get_noise_3d(u.noise, position[1] * zoom, position[2] * zoom,
                         (position[3] + pulsate) * zoom)
        noise_value2 ==
            get_noise_3d(u.noise, (position[1] + 1000 * Scale) * zoom,
                         (position[2] + 1000 * Scale) * zoom,
                         (position[3] + 1000 * Scale + pulsate) * zoom)
        noise_value == FMul(noise_value1 + noise_value2, 500)
        color == lerp(dark_color, bright_color, noise_value)
    IN  ColorMul(color, fragment.intensity)

\* Variant: sin in place of cos.
terrain_scaled_noise_both_sin(fragment) ==
    Abs(Sin(fragment.vertex_position[1] * 5) + Sin(fragment.vertex_position[2] * 5)) * 255

\* abs(sin(5x) + cos(5y)) * 255.0, the value narrowed by `as u8`.
terrain_scaled_noise(fragment) ==
    Abs(Sin(fragment.vertex_position[1] * 5) + Cos(fragment.vertex_position[2] * 5)) * 255

\* Variant: the terrain colour multiplied by the intensity, as the other shaders do.
terrain_shader_lit(fragment) ==
    LET color_value == ToU8(terrain_scaled_noise(fragment))
    IN  ColorMul(Color(color_value, color_value \div 2, color_value \div 4),
                 fragment.intensity)

terrain_shader(fragment) ==
    LET color_value == ToU8(terrain_scaled_noise(fragment))
    IN  Color(color_value, color_value \div 2, color_value \div 4)

gas_shader(fragment, u) ==
    LET ripple_pattern ==
            Abs(Sin(fragment.vertex_position[1] * 8 + FMul(u.time * Scale, 100)))
        intensity == ToU8(ripple_pattern * 255)
    IN  ColorMul(Color(0, intensity, 255), fragment.intensity)

\* The noise sample the cloud shader classifies.
cloud_noise_value(fragment, u) ==
    LET zoom == 100
        ox == 100 * Scale
        oy == 100 * Scale
        x == fragment.vertex_position[1]
        y == fragment.vertex_position[2]
        t == FMul(u.time * Scale, 500)
    IN  get_noise_2d(u.noise, x * zoom + ox + t, y * zoom + oy)

cloud_color == Color(255, 255, 255)

sky_color == Color(30, 97, 145)

land_color == Color(0, 100, 0)

cloud_threshold == 500

land_threshold == 1

\* Variant: inclusive thresholds.
noise_color_inclusive(noise_value) ==
    IF noise_value >= cloud_threshold THEN cloud_color
    ELSE IF noise_value >= land_threshold THEN land_color
    ELSE sky_color

\* The base colour picked by the two thresholds, high to low.
noise_color(noise_value) ==
    IF noise_value > cloud_threshold THEN cloud_color
    ELSE IF noise_value > land_threshold THEN land_color
    ELSE sky_color

\* Variant: the base colour returned without the intensity multiply.
cloud_shader_unlit(fragment, u) == noise_color(cloud_noise_value(fragment, u))

cloud_shader(fragment, u) ==
    ColorMul(noise_color(cloud_noise_value(fragment, u)), fragment.intensity)

circle1_x(u) == FRem(FMul(Sin(FMul(u.time * Scale, 50)), 400) + 500, Scale)

circle2_x(u) == FRem(FMul(Cos(FMul(u.time * Scale, 50)), 400) + 500, Scale)

dist1(fragment, u) ==
    LET dx == fragment.vertex_position[1] - circle1_x(u)
        dy == fragment.vertex_position[2] - 300
    IN  Sqrt(FMul(dx, dx) + FMul(dy, dy))

dist2(fragment, u) ==
    LET dx == fragment.vertex_position[1] - circle2_x(u)
        dy == fragment.vertex_position[2] - 700
    IN  Sqrt(FMul(dx, dx) + FMul(dy, dy))

circle_size == 100

moving_circles_shader(fragment, u) ==
    LET circle1 == IF dist1(fragment, u) < circle_size THEN Scale ELSE 0
        circle2 == IF dist2(fragment, u) < circle_size THEN Scale ELSE 0
        circle_intensity == Min(circle1 + circle2, Scale)
    IN  Color(ToU8(circle_intensity * 255), ToU8(circle_intensity * 255),
              ToU8(circle_intensity * 255))

\* Variant: the background tested first.
combined_shader_base_first(fragment, u) ==
    LET base_color == static_pattern_shader(fragment)
        circle_color == moving_circles_shader(fragment, u)
    IN  IF ~is_black(base_color) THEN ColorMul(base_color, fragment.intensity)
        ELSE ColorMul(circle_color, fragment.intensity)

combined_shader(fragment, u) ==
    LET base_color == static_pattern_shader(fragment)
        circle_color == moving_circles_shader(fragment, u)
    IN  IF ~is_black(circle_color) THEN ColorMul(circle_color, fragment.intensity)
        ELSE ColorMul(base_color, fragment.intensity)

\* Variant: tokens matched without regard to case.
fragment_shader_any_case(fragment, u, shader_type) ==
    CASE shader_type \in {"cloud", "CLOUD"} -> cloud_shader(fragment, u)
      [] shader_type \in {"lava", "LAVA"} -> lava_shader(fragment, u)
      [] shader_type \in {"terrain", "TERRAIN"} -> terrain_shader(fragment)
      [] shader_type \in {"gas", "GAS"} -> gas_shader(fragment, u)
      [] OTHER -> combined_shader(fragment, u)

fragment_shader(fragment, u, shader_type) ==
    CASE shader_type = "cloud" -> cloud_shader(fragment, u)
      [] shader_type = "lava" -> lava_shader(fragment, u)
      [] shader_type = "terrain" -> terrain_shader(fragment)
      [] shader_type = "gas" -> gas_shader(fragment, u)
      [] OTHER -> combined_shader(fragment, u)

----------------------------------------------------------------------------
(* Inputs *)

\* uniforms.time ranges over 0..MaxTime, the noise handle over 0..MaxSeed.
MaxTime == 2
MaxSeed == 2

Mat4Of(m) == [i \in 1..4 |-> [j \in 1..4 |-> m[i][j] * (Scale \div 2)]]

\* Matrices written in halves: 2 is 1.0.
ModelScale == Mat4Of(<<<<4, 0, 0, 2>>, <<0, 2, 0, 0>>, <<0, 0, 1, 0>>, <<0, 0, 0, 2>>>>)
ModelRotate == Mat4Of(<<<<0, -2, 0, 0>>, <<2, 0, 0, 2>>, <<0, 0, 2, 0>>, <<0, 0, 0, 2>>>>)
ModelShear == Mat4Of(<<<<2, 2, 0, 0>>, <<0, 2, 0, 0>>, <<0, 0, 2, 0>>, <<0, 0, 0, 2>>>>)
ModelFlat == Mat4Of(<<<<2, 0, 0, 0>>, <<0, 0, 0, 0>>, <<0, 0, 2, 0>>, <<0, 0, 0, 2>>>>)
ModelRankTwo == Mat4Of(<<<<2, 4, 0, 0>>, <<4, 8, 0, 0>>, <<0, 0, 2, 0>>, <<0, 0, 0, 2>>>>)
ViewBack == Mat4Of(<<<<2, 0, 0, 0>>, <<0, 2, 0, 0>>, <<0, 0, 2, -4>>, <<0, 0, 0, 2>>>>)
Perspective == Mat4Of(<<<<2, 0, 0, 0>>, <<0, 2, 0, 0>>, <<0, 0, -2, -1>>, <<0, 0, -2, 0>>>>)
Viewport ==
    Mat4Of(<<<<200, 0, 0, 200>>, <<0, -200, 0, 200>>, <<0, 0, 2, 0>>, <<0, 0, 0, 2>>>>)

Transform(m, v, p, vp) ==
    [model_matrix |-> m, view_matrix |-> v, projection_matrix |-> p, viewport_matrix |-> vp]

Transforms ==
    { Transform(Identity4, Identity4, Identity4, Identity4),
      Transform(Identity4, ViewBack, Perspective, Viewport),
      Transform(ModelScale, Identity4, Identity4, Viewport),
      Transform(ModelScale, ViewBack, Perspective, Viewport),
      Transform(ModelRotate, ViewBack, Perspective, Identity4),
      Transform(ModelShear, Identity4, Perspective, Viewport),
      Transform(ModelFlat, Identity4, Identity4, Identity4),
      Transform(ModelFlat, ViewBack, Perspective, Viewport),
      Transform(ModelRankTwo, ViewBack, Identity4, Viewport) }

Uniforms(tr, time, noise) ==
    [model_matrix |-> tr.model_matrix, view_matrix |-> tr.view_matrix,
     projection_matrix |-> tr.projection_matrix, viewport_matrix |-> tr.viewport_matrix,
     time |-> time, noise |-> noise]

UniformsSet == { Uniforms(tr, t, n) : tr \in Transforms, t \in 0..MaxTime, n \in 0..MaxSeed }

Vertex(position, normal, tex_coords, color, transformed_position, transformed_normal) ==
    [position |-> position, normal |-> normal, tex_coords |-> tex_coords, color |-> color,
     transformed_position |-> transformed_position,
     transformed_normal |-> transformed_normal]

Vertices ==
    { Vertex(<<1000, 0, 0>>, <<0, 0, 1000>>, <<0, 0>>, Color(255, 0, 0),
             <<0, 0, 0>>, <<0, 0, 0>>),
      Vertex(<<500, 1000, 2000>>, <<1000, 2000, 0>>, <<500, 500>>, Color(0, 255, 0),
             <<7000, 7000, 7000>>, <<0, 1000, 0>>),
      Vertex(<<-1000, 500, 1000>>, <<0, 1000, 0>>, <<1000, 0>>, Color(10, 20, 30),
             <<0, 0, 0>>, <<0, 0, 0>>),
      Vertex(<<0, 0, 0>>, <<1000, 1000, 1000>>, <<250, 750>>, Color(0, 0, 0),
             <<1000, 2000, 3000>>, <<1000, 0, 0>>) }

Positions ==
    { <<0, 0>>, <<300, 0>>, <<500, 300>>, <<600, 300>>, <<900, 700>>, <<-200, 400>> }

Intensities == {500, 1000, 1500}

Depths == {0, 500}

Fragment(vertex_position, depth, intensity) ==
    [vertex_position |-> vertex_position, depth |-> depth, intensity |-> intensity]

Fragments == { Fragment(p, d, i) : p \in Positions, d \in Depths, i \in Intensities }

Tokens == {"cloud", "lava", "terrain", "gas", "", "LAVA", "unknown"}

----------------------------------------------------------------------------------------------------------------------------------------
(* State machine.  uniforms is the frame's snapshot; last is the shader
   invocation in progress, with its arguments as they are after the call and
   its return value; ref is an earlier invocation kept for comparison, with
   the snapshot it ran under. *)

NoCall == [op |-> "none"]

NoRef == [call |-> NoCall]

\* A shared borrow (&Vertex, &Fragment, &Uniforms): the callee cannot write
\* through it, so the caller's value after the call is the value passed.
\* Variant: a callee that writes through the reference.
borrowed_written(x) ==
    IF "time" \in DOMAIN x THEN [x EXCEPT !.time = (@ + 1) % (MaxTime + 1)]
    ELSE IF "intensity" \in DOMAIN x THEN [x EXCEPT !.intensity = 0]
    ELSE [x EXCEPT !.transformed_normal = x.normal]

borrowed(x) == x

Init ==
    /\ uniforms \in UniformsSet
    /\ last = NoCall
    /\ ref = NoRef

VertexShaderCall(Vs) ==
    /\ last = NoCall
    /\ \E v \in Vs :
        last' = [op |-> "vertex_shader", vertex |-> v, vertex_after |-> borrowed(v),
                 result |-> vertex_shader(v, uniforms)]
    /\ uniforms' = borrowed(uniforms)
    /\ UNCHANGED ref

FragmentShaderCall(Fs, Ts) ==
    /\ last = NoCall
    /\ \E f \in Fs, shader_type \in Ts :
        last' = [op |-> "fragment_shader", fragment |-> f, fragment_after |-> borrowed(f),
                 shader_type |-> shader_type,
                 result |-> fragment_shader(f, uniforms, shader_type)]
    /\ uniforms' = borrowed(uniforms)
    /\ UNCHANGED ref

\* The caller takes the returned value (a vertex for the rasterizer, a colour
\* for the framebuffer); the invocation's arguments are discarded.
Return ==
    /\ last # NoCall
    /\ last' = NoCall
    /\ UNCHANGED <<uniforms, ref>>

\* The renderer rebuilds the uniforms for the next frame, between invocations.
NewFrame(Us) ==
    /\ last = NoCall
    /\ \E u \in Us : uniforms' = u
    /\ UNCHANGED <<last, ref>>

\* Observer: as Return, keeping the finished invocation for comparison with
\* a later one.
Remember ==
    /\ last # NoCall
    /\ ref' = [call |-> last, uniforms |-> uniforms]
    /\ last' = NoCall
    /\ UNCHANGED uniforms

Next ==
    \/ VertexShaderCall(Vertices)
    \/ FragmentShaderCall(Fragments, Tokens)
    \/ Return

Spec == Init /\ [][Next]_vars

\* A smaller input space for comparing pairs of invocations, within one frame
\* and across frames.
TransformsH ==
    { Transform(ModelScale, ViewBack, Perspective, Viewport),
      Transform(ModelFlat, Identity4, Identity4, Identity4) }

UniformsH == { Uniforms(tr, t, n) : tr \in TransformsH, t \in {0, MaxTime}, n \in {0, MaxSeed} }

VerticesH == { v \in Vertices : v.position[3] = 0 }

FragmentsH ==
    { Fragment(p, d, i) : p \in {<<0, 0>>, <<300, 0>>, <<600, 300>>},
                          d \in Depths, i \in {500, 1000} }

TokensH == {"terrain", "gas", ""}

InitH ==
    /\ uniforms \in UniformsH
    /\ last = NoCall
    /\ ref = NoRef

NextH ==
    \/ VertexShaderCall(VerticesH)
    \/ FragmentShaderCall(FragmentsH, TokensH)
    \/ Return
    \/ NewFrame(UniformsH)
    \/ Remember

SpecH == InitH /\ [][NextH]_vars

----------------------------------------------------------------------------
(* Properties *)

IsColor(c) == c \in [r : 0..255, g : 0..255, b : 0..255]

FragmentCall(c) == c.op = "fragment_shader"

VertexCall(c) == c.op = "vertex_shader"

\* C1: fragment_shader dispatches by exact, case-sensitive match on the
\* token: "cloud", "lava", "terrain" and "gas" return their shader's colour,
\* every other string returns combined_shader's, and the outcome is always a
\* colour.
C1_Dispatch ==
    FragmentCall(last) =>
        LET f == last.fragment
            tok == last.shader_type
        IN  /\ tok = "cloud" => last.result = cloud_shader(f, uniforms)
            /\ tok = "lava" => last.result = lava_shader(f, uniforms)
            /\ tok = "terrain" => last.result = terrain_shader(f)
            /\ tok = "gas" => last.result = gas_shader(f, uniforms)
            /\ tok \notin {"cloud", "lava", "terrain", "gas"}
                  => last.result = combined_shader(f, uniforms)
            /\ IsColor(last.result)

\* An upper-case token took the default branch, with a colour the lava shader
\* would not have given.
C1_Witness ==
    /\ FragmentCall(last)
    /\ last.shader_type = "LAVA"
    /\ last.result = combined_shader(last.fragment, uniforms)
    /\ last.result # lava_shader(last.fragment, uniforms)

\* C2: the vertex returned by vertex_shader has the position, normal,
\* tex_coords and color of the input vertex, and the input vertex is as it was.
C2_PassThrough ==
    VertexCall(last) =>
        /\ last.result.position = last.vertex.position
        /\ last.result.normal = last.vertex.normal
        /\ last.result.tex_coords = last.vertex.tex_coords
        /\ last.result.color = last.vertex.color
        /\ last.vertex_after = last.vertex

\* A vertex with stale derived fields was transformed by a non-trivial model
\* matrix: both derived fields are new, the four inputs are not.
C2_Witness ==
    /\ VertexCall(last)
    /\ uniforms.model_matrix # Identity4
    /\ last.vertex.transformed_normal # <<0, 0, 0>>
    /\ last.result.transformed_position # last.vertex.transformed_position
    /\ last.result.transformed_normal # last.vertex.transformed_normal
    /\ last.result.transformed_normal # last.vertex.normal
    /\ last.result.position = last.vertex.position

\* C3: when the upper-left 3x3 block of the model matrix is singular,
\* vertex_shader returns a vertex whose transformed_normal is the input normal.
C3_SingularFallback ==
    (VertexCall(last) /\ determinant(mat4_to_mat3(uniforms.model_matrix)) = 0) =>
        last.result.transformed_normal = last.vertex.normal

\* A singular block with no zero row or column, and a normal it would not
\* map to itself.
C3_Witness ==
    /\ VertexCall(last)
    /\ uniforms.model_matrix = ModelRankTwo
    /\ last.vertex.normal = <<1000, 2000, 0>>
    /\ last.result.transformed_normal = <<1000, 2000, 0>>
    /\ Mat3MulVec(mat4_to_mat3(uniforms.model_matrix), last.vertex.normal)
          # last.vertex.normal

\* C4: a channel narrowed from a real value to a byte is clamped to [0,255]
\* and never wraps: where abs(sin(5x)+cos(5y))*255 exceeds 255 the terrain
\* channel is 255, and terrain_shader, static_pattern_shader and
\* moving_circles_shader return channels in [0,255] for every fragment.
C4_ClampedChannels ==
    FragmentCall(last) =>
        LET f == last.fragment
        IN  /\ terrain_scaled_noise(f) > 255 * Scale => terrain_shader(f).r = 255
            /\ IsColor(terrain_shader(f))
            /\ IsColor(static_pattern_shader(f))
            /\ IsColor(moving_circles_shader(f, uniforms))
            /\ last.shader_type = "terrain" => last.result = terrain_shader(f)

\* The terrain shader ran on a fragment whose scaled value is above 255 and
\* returned the saturated earthy colour.
C4_Witness ==
    /\ FragmentCall(last)
    /\ last.shader_type = "terrain"
    /\ terrain_scaled_noise(last.fragment) > 255 * Scale
    /\ last.result = Color(255, 127, 63)

IsTerrainCall(c) == FragmentCall(c) /\ c.shader_type = "terrain"

\* C5: two terrain invocations on fragments with the same vertex_position
\* return equal colours, whatever the uniforms (time included), intensity and
\* depth of each.
C5_TerrainPurity ==
    (/\ IsTerrainCall(ref.call)
     /\ IsTerrainCall(last)
     /\ ref.call.fragment.vertex_position = last.fragment.vertex_position)
        => ref.call.result = last.result

\* Two terrain invocations at one position that differ in time, intensity
\* and depth, with a colour that is not black.
C5_Witness ==
    /\ IsTerrainCall(ref.call)
    /\ IsTerrainCall(last)
    /\ ref.call.fragment.vertex_position = last.fragment.vertex_position
    /\ ref.uniforms.time # uniforms.time
    /\ ref.call.fragment.intensity # last.fragment.intensity
    /\ ref.call.fragment.depth # last.fragment.depth
    /\ ~is_black(last.result)

IsCloudCall(c) == FragmentCall(c) /\ c.shader_type = "cloud"

\* C6 as claimed: a sampled noise value of exactly 0.5 is classified as
\* cloud, the colour before the intensity multiply being white.
C6_HalfIsCloud ==
    (IsCloudCall(last) /\ cloud_noise_value(last.fragment, uniforms) = 500) =>
        last.result = ColorMul(Color(255, 255, 255), last.fragment.intensity)

\* C6: a sampled noise value of exactly 0.5 is classified as land, the colour
\* before the intensity multiply being (0,100,0); only a value above 0.5 is
\* cloud.
C6_HalfIsLand ==
    (IsCloudCall(last) /\ cloud_noise_value(last.fragment, uniforms) = 500) =>
        /\ noise_color(cloud_noise_value(last.fragment, uniforms)) = Color(0, 100, 0)
        /\ last.result = ColorMul(Color(0, 100, 0), last.fragment.intensity)

\* The cloud shader sampled exactly 0.5 at full intensity.
C6_Witness ==
    /\ IsCloudCall(last)
    /\ cloud_noise_value(last.fragment, uniforms) = 500
    /\ last.fragment.intensity = Scale
    /\ last.result = Color(0, 100, 0)

\* C7: the cloud shader returns, multiplied by fragment.intensity, white for
\* a noise value above 0.5, otherwise dark green for a value above 0.001,
\* otherwise (0.001 itself and every negative value included) sky blue.
C7_CloudBands ==
    IsCloudCall(last) =>
        LET n == cloud_noise_value(last.fragment, uniforms)
            i == last.fragment.intensity
        IN  /\ n > 500 => last.result = ColorMul(Color(255, 255, 255), i)
            /\ (n <= 500 /\ n > 1) => last.result = ColorMul(Color(0, 100, 0), i)
            /\ n <= 1 => last.result = ColorMul(Color(30, 97, 145), i)

\* The cloud shader sampled exactly 0.001 at half intensity and returned the
\* dimmed sky colour.
C7_Witness ==
    /\ IsCloudCall(last)
    /\ cloud_noise_value(last.fragment, uniforms) = 1
    /\ last.fragment.intensity = 500
    /\ last.result = ColorMul(Color(30, 97, 145), 500)
    /\ last.result # Color(30, 97, 145)

IsCombinedCall(c) ==
    FragmentCall(c) /\ c.shader_type \notin {"cloud", "lava", "terrain", "gas"}

\* The fragment is within 0.1 of a circle centre.
InCircle(f, u) == dist1(f, u) < 100 \/ dist2(f, u) < 100

\* C8: combined_shader returns the circle colour times the intensity where
\* the circle layer is non-black, which is exactly where the fragment is
\* within 0.1 of a circle centre, and the static pattern times the intensity
\* elsewhere.
C8_CirclePriority ==
    IsCombinedCall(last) =>
        LET f == last.fragment
            circle == moving_circles_shader(f, uniforms)
            base == static_pattern_shader(f)
        IN  /\ ~is_black(circle) <=> InCircle(f, uniforms)
            /\ InCircle(f, uniforms) => last.result = ColorMul(circle, f.intensity)
            /\ ~InCircle(f, uniforms) => last.result = ColorMul(base, f.intensity)

\* A fragment inside a circle got the white circle colour, not its pattern.
C8_Witness ==
    /\ IsCombinedCall(last)
    /\ InCircle(last.fragment, uniforms)
    /\ last.fragment.intensity = Scale
    /\ last.result = Color(255, 255, 255)
    /\ last.result # ColorMul(static_pattern_shader(last.fragment), last.fragment.intensity)

\* The fragment and time of the end-to-end example.
IsExample(c, u) ==
    /\ FragmentCall(c)
    /\ u.time = 0
    /\ c.fragment.vertex_position = <<0, 0>>
    /\ c.fragment.intensity = Scale

\* C9: at time 0, for a fragment at (0,0) with intensity 1.0, the terrain
\* shader returns Color(255,127,63) and the gas shader Color(0,0,255).
C9_Example ==
    IsExample(last, uniforms) =>
        /\ last.shader_type = "terrain" => last.result = Color(255, 127, 63)
        /\ last.shader_type = "gas" => last.result = Color(0, 0, 255)

\* Both invocations of the example were made, terrain first and gas after.
C9_Witness ==
    /\ IsExample(ref.call, ref.uniforms)
    /\ ref.call.shader_type = "terrain"
    /\ ref.call.result = Color(255, 127, 63)
    /\ IsExample(last, uniforms)
    /\ last.shader_type = "gas"
    /\ last.result = Color(0, 0, 255)

\* The two invocations are of the same function on the same arguments.
SameArguments(c, d) ==
    \/ VertexCall(c) /\ VertexCall(d) /\ c.vertex = d.vertex
    \/ /\ FragmentCall(c) /\ FragmentCall(d)
       /\ c.fragment = d.fragment
       /\ c.shader_type = d.shader_type

\* An invocation leaves its vertex or fragment as it was passed.
ArgumentsKept(c) ==
    /\ VertexCall(c) => c.vertex_after = c.vertex
    /\ FragmentCall(c) => c.fragment_after = c.fragment

\* Two invocations of a function on the same arguments under the same
\* uniforms returned the same value, whatever ran in between.
Repeatable ==
    (ref.call # NoCall /\ last # NoCall /\ ref.uniforms = uniforms
     /\ SameArguments(ref.call, last))
        => ref.call.result = last.result

====
